---------------------------- MODULE Spec2Model ----------------------------
(***************************************************************************)
(* Rarest-first piece picker of synapse (src/torrent/picker/rarest.rs).    *)
(*                                                                         *)
(* The picker keeps `pieces` ordered by availability, `priorities` holding *)
(* the bucket boundaries and `piece_idx` mapping a piece to its position,  *)
(* availability and status.  Vectors of fixed length are functions on      *)
(* 0..len-1 so that indices read as in the source; `priorities`, which     *)
(* grows, is a sequence read through PriAt.  A Rust panic (index out of    *)
(* bounds, arithmetic overflow under overflow checks) ends the run of the  *)
(* picker: `panicked` becomes TRUE with the fields as the panicking        *)
(* statement left them.  A usize that wrapped below zero is represented by *)
(* its negative representative modulo 2^64; it is out of range as an index.*)
(* Every wrap is followed by an out-of-range index in the same call, so    *)
(* the two build profiles panic in the same calls and differ only in the   *)
(* fields a panicking call leaves behind.                                  *)
(***************************************************************************)
EXTENDS Integers, Sequences, FiniteSets, TLC

\* ---------------------------------------------------------------- bounds
NumPieces == 3
NumPeers == 2
MaxCalls == 3
MaxCallsFresh == 5

\* ------------------------------------------------------------- constants
PIECE_COMPLETE_INC == 100

Pieces == 0 .. (NumPieces - 1)
PeerIds == 0 .. (NumPeers - 1)
None == -1

VARIABLES
    pieces,           \* Picker.pieces: position -> piece
    priorities,       \* Picker.priorities: bucket end position per availability
    piece_idx,        \* Picker.piece_idx: piece -> [idx, availability, status]
    seeders,          \* Picker.seeders: set of peer ids
    panicked,         \* a picker call panicked
    peers,            \* caller side: peer id -> [added, bits]
    last,             \* the most recent picker call and what it returned
    snap,             \* picker fields before the call that `last.undoes` reverses
    picked,           \* pieces returned by pick so far
    recompleted,      \* completed was called for a piece already Complete
    budget            \* number of picker calls left in the run

picker_vars == <<pieces, priorities, piece_idx, seeders, panicked,
                 peers, last, snap, picked, recompleted, budget>>

\* The RPC reactor (src/rpc/mod.rs).  A connection is known by the id the
\* registrar gave its socket.
VARIABLES
    incoming,         \* RPC.incoming: ids of the Incoming connections
    clients,          \* RPC.clients: ids of the Clients
    transfers,        \* RPC.transfers: transfer id -> id of the client it is for
    processor,        \* RPC.processor: [tokens, subs, minted]
    registered,       \* RPC.reg: ids of the sockets registered with the registrar
    dropped,          \* ids of the sockets whose connection object was dropped
    written,          \* socket id -> the frames queued on it for the last notification
    ctl,              \* RPC.ch.rx: controller messages sent and not yet received
    reactor,          \* "running", "returned" (run returned) or "panicked"
    next_id,          \* the id the registrar gives to the next socket
    handled,          \* the most recent notification handled and the branch taken
    notified,         \* the number of notifications run has handled
    accepting,        \* run is inside the loop of handle_accept
    accept_errors     \* errors that loop has logged, counted modulo MaxAcceptErrors

rpc_vars == <<incoming, clients, transfers, processor, registered, dropped,
              written, ctl, reactor, next_id, handled, notified, accepting,
              accept_errors>>

vars == <<picker_vars, rpc_vars>>

\* ------------------------------------------------------------ vector ops
\* pieces and piece_idx, whose length is fixed, are functions on 0..N-1.
InRange(v, i) == i \in DOMAIN v

VecLen(v) == Cardinality(DOMAIN v)

VecSwap(v, a, b) == [v EXCEPT ![a] = v[b], ![b] = v[a]]

\* priorities, which grows, is a sequence: priorities[a] of the source is
\* the element a + 1 of the sequence.
PriLen(pri) == Len(pri)

PriInRange(pri, a) == 0 <= a /\ a < Len(pri)

PriAt(pri, a) == pri[a + 1]

PriAdd(pri, a, d) == [pri EXCEPT ![a + 1] = @ + d]

PriPush(pri, x) == Append(pri, x)

\* The picker as one value, so that the methods are operators on it.  The
\* value carries the build profile: overflow_checks is TRUE when arithmetic
\* overflow panics (debug) and FALSE when it wraps (release).
Self(checks) ==
    [pieces |-> pieces, priorities |-> priorities, piece_idx |-> piece_idx,
     seeders |-> seeders, panicked |-> panicked, overflow_checks |-> checks]

Panic(s) == [s EXCEPT !.panicked = TRUE]

\* ------------------------------------------------------------ swap_piece
\* swap_piece that re-indexes only the piece that was at position a.
swap_piece_OneSided(s, a, b) ==
    IF s.panicked THEN s
    ELSE IF ~InRange(s.pieces, a) \/ ~InRange(s.pieces, b) THEN Panic(s)
    ELSE [s EXCEPT !.piece_idx[s.pieces[a]].idx = b,
                   !.pieces = VecSwap(s.pieces, a, b)]

swap_piece(s, a, b) ==
    IF s.panicked THEN s
    ELSE IF ~InRange(s.pieces, a) THEN Panic(s)
    ELSE LET s1 == [s EXCEPT !.piece_idx[s.pieces[a]].idx = b]
         IN IF ~InRange(s.pieces, b) THEN Panic(s1)
            ELSE LET s2 == [s1 EXCEPT !.piece_idx[s.pieces[b]].idx = a]
                 IN [s2 EXCEPT !.pieces = VecSwap(s.pieces, a, b)]

\* ------------------------------------------------------- piece_available
\* piece_available without the push of a new priority bound.
piece_available_NoPush(s, piece) ==
    IF s.panicked THEN s
    ELSE IF ~InRange(s.piece_idx, piece) THEN Panic(s)
    ELSE LET a == s.piece_idx[piece].availability
         IN IF ~PriInRange(s.priorities, a) THEN Panic(s)
            ELSE IF PriAt(s.priorities, a) - 1 < 0 /\ s.overflow_checks
                 THEN Panic(s)
            ELSE LET pri1 == PriAdd(s.priorities, a, -1)
                     s1 == [s EXCEPT !.priorities = pri1,
                                     !.piece_idx[piece].availability = a + 1]
                     idx == s.piece_idx[piece].idx
                     avail == (a + 1) - 1
                 IN IF ~PriInRange(pri1, avail) THEN Panic(s1)
                    ELSE swap_piece(s1, idx, PriAt(pri1, avail))

piece_available(s, piece) ==
    IF s.panicked THEN s
    ELSE IF ~InRange(s.piece_idx, piece) THEN Panic(s)
    ELSE LET a == s.piece_idx[piece].availability
         IN IF ~PriInRange(s.priorities, a) THEN Panic(s)
            ELSE IF PriAt(s.priorities, a) - 1 < 0 /\ s.overflow_checks
                 THEN Panic(s)
            ELSE LET pri1 == PriAdd(s.priorities, a, -1)
                     pri2 == IF PriLen(pri1) = a + 1
                             THEN PriPush(pri1, VecLen(s.pieces))
                             ELSE pri1
                     s1 == [s EXCEPT !.priorities = pri2,
                                     !.piece_idx[piece].availability = a + 1]
                     idx == s.piece_idx[piece].idx
                     avail == (a + 1) - 1
                 IN IF ~PriInRange(pri2, avail) THEN Panic(s1)
                    ELSE swap_piece(s1, idx, PriAt(pri2, avail))

\* ----------------------------------------------------- piece_unavailable
piece_unavailable(s, piece) ==
    IF s.panicked THEN s
    ELSE IF ~InRange(s.piece_idx, piece) THEN Panic(s)
    ELSE LET a == s.piece_idx[piece].availability
         IN IF a - 1 < 0 /\ s.overflow_checks THEN Panic(s)
            ELSE LET s1 == [s EXCEPT !.piece_idx[piece].availability = a - 1]
                     avail == a - 1
                 IN IF ~PriInRange(s.priorities, avail) THEN Panic(s1)
                    ELSE LET s2 == [s1 EXCEPT
                                      !.priorities = PriAdd(@, avail, 1)]
                             idx == s.piece_idx[piece].idx
                         IN IF avail - 1 < 0 /\ s.overflow_checks THEN Panic(s2)
                            ELSE IF ~PriInRange(s2.priorities, avail - 1)
                                 THEN Panic(s2)
                            ELSE swap_piece(s2, idx,
                                            PriAt(s2.priorities, avail - 1))

Only(S) == CHOOSE x \in S : TRUE

\* The `for _ in 0..n` loops: n successive calls on the same piece.  The n
\* calls are composed by halves, the first half evaluated before the second,
\* which keeps the evaluation depth at log n.
RECURSIVE bump(_, _, _)
bump(s, piece, n) ==
    IF n = 0 THEN s
    ELSE IF n = 1 THEN piece_available(s, piece)
    ELSE Only({bump(h, piece, n - (n \div 2)) : h \in {bump(s, piece, n \div 2)}})

RECURSIVE drop(_, _, _)
drop(s, piece, n) ==
    IF n = 0 THEN s
    ELSE IF n = 1 THEN piece_unavailable(s, piece)
    ELSE Only({drop(h, piece, n - (n \div 2)) : h \in {drop(s, piece, n \div 2)}})

\* ------------------------------------------------- completed, incomplete
\* completed whose loop runs once: a bias of 1 in place of PIECE_COMPLETE_INC.
completed_OneBump(s, piece) ==
    IF s.panicked THEN s
    ELSE IF ~InRange(s.piece_idx, piece) THEN Panic(s)
    ELSE bump([s EXCEPT !.piece_idx[piece].status = "Complete"], piece, 1)

completed(s, piece) ==
    IF s.panicked THEN s
    ELSE IF ~InRange(s.piece_idx, piece) THEN Panic(s)
    ELSE bump([s EXCEPT !.piece_idx[piece].status = "Complete"],
              piece, PIECE_COMPLETE_INC)

\* incomplete whose loop runs one time fewer than completed's.
incomplete_OneShort(s, piece) ==
    IF s.panicked THEN s
    ELSE IF ~InRange(s.piece_idx, piece) THEN Panic(s)
    ELSE drop([s EXCEPT !.piece_idx[piece].status = "Incomplete"],
              piece, PIECE_COMPLETE_INC - 1)

incomplete(s, piece) ==
    IF s.panicked THEN s
    ELSE IF ~InRange(s.piece_idx, piece) THEN Panic(s)
    ELSE drop([s EXCEPT !.piece_idx[piece].status = "Incomplete"],
              piece, PIECE_COMPLETE_INC)

\* ---------------------------------------------------------- bitfields
\* Bitfield::iter yields the set bits in ascending order.
RECURSIVE BitsAscending(_)
BitsAscending(bits) ==
    IF bits = {} THEN <<>>
    ELSE LET m == CHOOSE x \in bits : \A y \in bits : x <= y
         IN <<m>> \o BitsAscending(bits \ {m})

\* Bitfield::complete: every bit is set.
BitfieldComplete(bits) == \A p \in Pieces : p \in bits

RECURSIVE AvailableAll(_, _)
AvailableAll(s, seq) ==
    IF seq = <<>> THEN s
    ELSE AvailableAll(piece_available(s, Head(seq)), Tail(seq))

RECURSIVE UnavailableAll(_, _)
UnavailableAll(s, seq) ==
    IF seq = <<>> THEN s
    ELSE UnavailableAll(piece_unavailable(s, Head(seq)), Tail(seq))

\* ------------------------------------------------ add_peer, remove_peer
\* add_peer without the early return for a peer that has every piece.
add_peer_CountsSeeder(s, id, bits) ==
    IF s.panicked THEN s
    ELSE AvailableAll(s, BitsAscending(bits))

add_peer(s, id, bits) ==
    IF s.panicked THEN s
    ELSE IF BitfieldComplete(bits) THEN [s EXCEPT !.seeders = @ \cup {id}]
    ELSE AvailableAll(s, BitsAscending(bits))

remove_peer(s, id, bits) ==
    IF s.panicked THEN s
    ELSE IF id \in s.seeders THEN [s EXCEPT !.seeders = @ \ {id}]
    ELSE UnavailableAll(s, BitsAscending(bits))

\* ------------------------------------------------------------------ pick
\* The candidates without the filter on the status.
PickCandidates_AnyStatus(s, bits) ==
    {i \in DOMAIN s.pieces : s.pieces[i] \in bits}

\* Positions of the Incomplete pieces the peer has, in `pieces` order.
PickCandidates(s, bits) ==
    {i \in DOMAIN s.pieces :
        /\ s.piece_idx[s.pieces[i]].status = "Incomplete"
        /\ s.pieces[i] \in bits}

\* The piece `find` stops at, or None.
PickFind(s, bits) ==
    IF PickCandidates(s, bits) = {} THEN None
    ELSE s.pieces[CHOOSE i \in PickCandidates(s, bits) :
                      \A j \in PickCandidates(s, bits) : i <= j]

\* pick returns [s |-> picker after the call, ret |-> piece or None].
pick(s, bits) ==
    IF s.panicked THEN [s |-> s, ret |-> None]
    ELSE LET p == PickFind(s, bits)
         IN IF p = None THEN [s |-> s, ret |-> None]
            ELSE IF (s.piece_idx[p].availability % 2) = 0
                 THEN [s |-> piece_unavailable(s, p), ret |-> p]
                 ELSE [s |-> s, ret |-> p]

\* ------------------------------------------------------------------- new
RECURSIVE NewLoop(_, _, _)
NewLoop(s, bits, i) ==
    IF i >= NumPieces THEN s
    ELSE LET s1 == piece_available(s, i)
             s2 == IF i \in bits THEN completed(s1, i) ELSE s1
         IN NewLoop(s2, bits, i + 1)

new(bits, checks) ==
    NewLoop([pieces |-> [i \in Pieces |-> i],
             priorities |-> <<NumPieces>>,
             piece_idx |-> [i \in Pieces |->
                              [idx |-> i, availability |-> 0,
                               status |-> "Incomplete"]],
             seeders |-> {},
             panicked |-> FALSE,
             overflow_checks |-> checks],
            bits, 0)

\* =================================================== the RPC reactor
\* ---------------------------------------------------------------- bounds
MaxConns == 3
MaxTokens == 2
MaxCtl == 2
MaxReads == 1
MaxNotified == 5
MaxAcceptErrors == 2

ConnIds == 1 .. MaxConns
TokenIds == 1 .. MaxTokens

NothingWritten == [id \in ConnIds |-> {}]

\* The reactor as one value when a notification arrives, so that the
\* handlers are operators on it.
RpcSelf ==
    [incoming |-> incoming, clients |-> clients, transfers |-> transfers,
     processor |-> processor, registered |-> registered, dropped |-> dropped,
     written |-> NothingWritten, ctl |-> ctl, reactor |-> reactor,
     next_id |-> next_id]

Running(r) == r.reactor = "running"

\* ------------------------------------------------------------- Processor
\* tokens: the token table, a set of [token, client, kind]; subs: the
\* clients that subscribed; minted: how many tokens were issued.
ProcessorNew == [tokens |-> {}, subs |-> {}, minted |-> 0]

\* Single-use consume of a token.
get_transfer(p, token) ==
    LET hit == {e \in p.tokens : e.token = token}
    IN IF hit = {}
       THEN [p |-> p, found |-> FALSE, client |-> None, kind |-> "None"]
       ELSE LET e == CHOOSE x \in hit : TRUE
            IN [p |-> [p EXCEPT !.tokens = @ \ {e}], found |-> TRUE,
                client |-> e.client, kind |-> e.kind]

remove_expired_tokens(p, expired) ==
    [p EXCEPT !.tokens = {e \in @ : e.token \notin expired}]

\* Forget the subscriptions and the outstanding tokens of a client.
processor_remove_client(p, id) ==
    [p EXCEPT !.tokens = {e \in @ : e.client # id}, !.subs = @ \ {id}]

\* A client message: the new processor, the frames to send back and whether
\* there is a request for the controller.
handle_client(p, id, m) ==
    CASE m.read = "SUBSCRIBE" ->
            [p |-> [p EXCEPT !.subs = @ \cup {id}], msgs |-> <<>>, rm |-> FALSE]
      [] m.read = "UPLOAD_TORRENT" ->
            [p |-> [p EXCEPT !.minted = @ + 1,
                             !.tokens = @ \cup {[token |-> p.minted + 1,
                                                 client |-> id,
                                                 kind |-> m.kind]}],
             msgs |-> <<"TRANSFER_OFFERED">>, rm |-> FALSE]
      [] OTHER ->
            [p |-> p, msgs |-> <<>>, rm |-> TRUE]

RECURSIVE SetToSeq(_)
SetToSeq(S) ==
    IF S = {} THEN <<>>
    ELSE LET m == CHOOSE x \in S : \A y \in S : x <= y
         IN <<m>> \o SetToSeq(S \ {m})

\* A controller update: one notification per subscriber.
processor_handle_ctl(p, m) == SetToSeq(p.subs)

\* ------------------------------------------------- registrar and sockets
RpcPanic(r) == [r EXCEPT !.reactor = "panicked"]

\* reg.deregister(&conn).unwrap(): an error (the socket is not registered)
\* panics.
deregister(r, id) ==
    IF ~Running(r) THEN r
    ELSE IF id \in r.registered THEN [r EXCEPT !.registered = @ \ {id}]
    ELSE RpcPanic(r)

\* The connection object goes out of scope: its socket is closed.
DropConn(r, id) == [r EXCEPT !.dropped = @ \cup {id}]

\* c.send(frame): the frame is queued on the client unless send fails.
client_send(r, id, frame, ok) ==
    IF ok THEN [r EXCEPT !.written[id] = @ \cup {frame}] ELSE r

\* ---------------------------------------------------------- remove_client
remove_client(r, id) ==
    IF ~Running(r) THEN r
    ELSE DropConn(deregister([r EXCEPT !.processor =
                                  processor_remove_client(@, id)], id), id)

\* ---------------------------------------------------------- handle_accept
\* results: what listener.accept() returns, call after call, before it
\* returns WouldBlock.
\* One turn of the loop on a result other than WouldBlock: a connection is
\* registered and stored, an error is only logged.
accept_once(r, result) ==
    IF result = "Ok"
    THEN [r EXCEPT !.registered = @ \cup {r.next_id},
                   !.incoming = @ \cup {r.next_id},
                   !.next_id = @ + 1]
    ELSE r

RECURSIVE handle_accept(_, _)
handle_accept(r, results) ==
    IF ~Running(r) \/ results = <<>> THEN r
    ELSE handle_accept(accept_once(r, Head(results)), Tail(results))

\* -------------------------------------------------------- handle_incoming
\* handle_incoming that leaves an upgraded connection in `incoming` as well.
handle_incoming_KeepsIncoming(r, id, status) ==
    IF ~Running(r) \/ id \notin r.incoming THEN [r |-> r, event |-> "none"]
    ELSE LET r0 == [r EXCEPT !.incoming = @ \ {id}]
         IN CASE status.is = "Upgrade" ->
                    [r |-> [r EXCEPT !.clients = @ \cup {id}],
                     event |-> "upgrade"]
              [] status.is = "Incomplete" ->
                    [r |-> [r0 EXCEPT !.incoming = @ \cup {id}],
                     event |-> "incomplete"]
              [] status.is = "Transfer" ->
                    LET g == get_transfer(r0.processor, status.token)
                        r1 == [r0 EXCEPT !.processor = g.p]
                    IN IF g.found /\ g.kind = "UploadTorrent"
                       THEN [r |-> [r1 EXCEPT !.transfers =
                                       @ @@ (id :> g.client)],
                             event |-> "transfer"]
                       ELSE IF g.found
                       THEN [r |-> DropConn(r1, id), event |-> "unimplemented"]
                       ELSE [r |-> DropConn(r1, id), event |-> "invalid_token"]
              [] OTHER ->
                    [r |-> DropConn(deregister(r0, id), id),
                     event |-> "failed"]

\* status: what i.readable() returns.  The result is the reactor and the
\* branch taken.
handle_incoming(r, id, status) ==
    IF ~Running(r) \/ id \notin r.incoming THEN [r |-> r, event |-> "none"]
    ELSE LET r0 == [r EXCEPT !.incoming = @ \ {id}]
         IN CASE status.is = "Upgrade" ->
                    [r |-> [r0 EXCEPT !.clients = @ \cup {id}],
                     event |-> "upgrade"]
              [] status.is = "Incomplete" ->
                    [r |-> [r0 EXCEPT !.incoming = @ \cup {id}],
                     event |-> "incomplete"]
              [] status.is = "Transfer" ->
                    LET g == get_transfer(r0.processor, status.token)
                        r1 == [r0 EXCEPT !.processor = g.p]
                    IN IF g.found /\ g.kind = "UploadTorrent"
                       THEN [r |-> [r1 EXCEPT !.transfers =
                                       @ @@ (id :> g.client)],
                             event |-> "transfer"]
                       ELSE IF g.found
                       THEN [r |-> DropConn(r1, id), event |-> "unimplemented"]
                       ELSE [r |-> DropConn(r1, id), event |-> "invalid_token"]
              [] OTHER ->
                    [r |-> DropConn(deregister(r0, id), id),
                     event |-> "failed"]

\* ------------------------------------------------------------ handle_conn
\* reads: what c.read() returns, call after call, before it returns
\* Ok(None).  The loop of handle_conn: the reactor, whether the loop broke
\* with true, and why it broke.
RECURSIVE read_loop(_, _, _)
read_loop(r, id, reads) ==
    IF reads = <<>> THEN [r |-> r, res |-> TRUE, event |-> "read"]
    ELSE LET f == Head(reads)
         IN IF f.read = "Err"
            THEN [r |-> r, res |-> FALSE, event |-> "io_error"]
            ELSE IF f.read = "Binary"
            THEN [r |-> r, res |-> FALSE, event |-> "bad_frame"]
            ELSE IF f.read = "Invalid"
            THEN [r |-> r, res |-> FALSE, event |-> "invalid_json"]
            ELSE LET h == handle_client(r.processor, id, f)
                     r1 == [r EXCEPT !.processor = h.p]
                 IN IF h.rm /\ ~f.ch_ok
                    THEN [r |-> RpcPanic(r1), res |-> FALSE,
                          event |-> "ch_send_failed"]
                    ELSE IF h.msgs # <<>> /\ ~f.send_ok
                    THEN [r |-> r1, res |-> FALSE, event |-> "send_failed"]
                    ELSE read_loop(IF h.msgs = <<>> THEN r1
                                   ELSE client_send(r1, id, Head(h.msgs), TRUE),
                                   id, Tail(reads))

\* The run is over: the RPC value and every connection it holds are dropped.
EndRun(r, how) ==
    [r EXCEPT !.reactor = how,
              !.dropped = 1 .. (r.next_id - 1),
              !.incoming = {}, !.clients = {}, !.transfers = <<>>]

handle_conn(r, id, ev, reads, write_ok) ==
    IF ~Running(r) \/ id \notin r.clients THEN [r |-> r, event |-> "none"]
    ELSE LET r0 == [r EXCEPT !.clients = @ \ {id}]
             rd == IF ev.readable THEN read_loop(r0, id, reads)
                   ELSE [r |-> r0, res |-> TRUE, event |-> "read"]
         IN IF ~Running(rd.r)
            THEN [r |-> EndRun(rd.r, "panicked"), event |-> rd.event]
            ELSE IF ~rd.res
            THEN [r |-> remove_client(rd.r, id), event |-> rd.event]
            ELSE IF ev.writable /\ ~write_ok
            THEN [r |-> remove_client(rd.r, id), event |-> "write_failed"]
            ELSE [r |-> [rd.r EXCEPT !.clients = @ \cup {id}],
                  event |-> rd.event]

\* -------------------------------------------------------- handle_transfer
\* result: what transfers.readable(id) returns; a Torrent or an Error takes
\* the transfer out of `transfers` and hands its socket to the reactor.
\* ch_ok: whether self.ch.send(Message::Torrent(..)) succeeds.
Without(f, id) == [x \in (DOMAIN f) \ {id} |-> f[x]]

handle_transfer(r, id, readable, result, ch_ok, send_ok) ==
    IF ~Running(r) \/ id \notin DOMAIN r.transfers \/ ~readable
       \/ result = "Incomplete"
    THEN [r |-> r, event |-> "none"]
    ELSE LET client == r.transfers[id]
             r0 == [r EXCEPT !.transfers = Without(@, id)]
             r1 == deregister(r0, id)
         IN IF result = "Torrent"
            THEN [r |-> DropConn(r1, id),
                  event |-> IF ch_ok THEN "torrent" ELSE "torrent_ch_send_failed"]
            ELSE IF client \notin r1.clients
            THEN [r |-> DropConn(r1, id), event |-> "error"]
            ELSE IF send_ok
            THEN [r |-> DropConn(client_send(r1, client, "TRANSFER_FAILED",
                                             TRUE), id),
                  event |-> "error"]
            ELSE [r |-> DropConn(remove_client(
                                    [r1 EXCEPT !.clients = @ \ {client}],
                                    client), id),
                  event |-> "error_send_failed"]

\* ---------------------------------------------------------------- cleanup
\* expired: the tokens past their expiry; timed_out: the connections whose
\* timed_out() is true, or that transfers.cleanup() reports.
RECURSIVE DeregisterAll(_, _)
DeregisterAll(r, ids) ==
    IF ids = <<>> THEN r
    ELSE DeregisterAll(DropConn(deregister(r, Head(ids)), Head(ids)), Tail(ids))

RECURSIVE FailTransfers(_, _, _)
FailTransfers(r, ids, send_ok) ==
    IF ids = <<>> THEN r
    ELSE LET id == Head(ids)
             client == r.transfers[id]
             r1 == DropConn(deregister([r EXCEPT !.transfers = Without(@, id)],
                                       id), id)
             r2 == IF client \in r1.clients /\ Running(r1)
                   THEN client_send(r1, client, "TRANSFER_FAILED", send_ok)
                   ELSE r1
         IN FailTransfers(r2, Tail(ids), send_ok)

cleanup(r, expired, timed_out, send_ok) ==
    IF ~Running(r) THEN r
    ELSE LET r0 == [r EXCEPT !.processor = remove_expired_tokens(@, expired)]
             cs == r0.clients \cap timed_out
             r1 == DeregisterAll([r0 EXCEPT !.clients = @ \ cs], SetToSeq(cs))
             is == r1.incoming \cap timed_out
             r2 == DeregisterAll([r1 EXCEPT !.incoming = @ \ is], SetToSeq(is))
             ts == (DOMAIN r2.transfers) \cap timed_out
         IN FailTransfers(r2, SetToSeq(ts), send_ok)

\* ------------------------------------------------------------- handle_ctl
\* The frames of one controller update, sent client by client; `fails` are
\* the clients on which send fails.
RECURSIVE Deliver(_, _, _)
Deliver(r, cs, fails) ==
    IF cs = <<>> \/ ~Running(r) THEN r
    ELSE LET c == Head(cs)
         IN IF c \notin r.clients THEN Deliver(r, Tail(cs), fails)
            ELSE IF c \in fails
            THEN Deliver(remove_client([r EXCEPT !.clients = @ \ {c}], c),
                         Tail(cs), fails)
            ELSE Deliver(client_send(r, c, "RESOURCES_UPDATE", TRUE),
                         Tail(cs), fails)

\* handle_ctl returns true when it received Shutdown.
RECURSIVE handle_ctl(_, _)
handle_ctl(r, fails) ==
    IF ~Running(r) \/ r.ctl = <<>> THEN [r |-> r, shutdown |-> FALSE]
    ELSE LET m == Head(r.ctl)
             r0 == [r EXCEPT !.ctl = Tail(@)]
         IN IF m = "Shutdown" THEN [r |-> r0, shutdown |-> TRUE]
            ELSE handle_ctl(Deliver(r0, processor_handle_ctl(r0.processor, m),
                                    fails),
                            fails)

\* ------------------------------------------------------------------ start
RpcStarted ==
    /\ incoming = {}
    /\ clients = {}
    /\ transfers = <<>>
    /\ processor = ProcessorNew
    /\ registered = {}
    /\ dropped = {}
    /\ written = NothingWritten
    /\ ctl = <<>>
    /\ reactor = "running"
    /\ next_id = 1
    /\ handled = [op |-> "start", id |-> None, event |-> "none"]
    /\ notified = 0
    /\ accepting = FALSE
    /\ accept_errors = 0

\* ------------------------------------------------------------- the calls
NoPeer == [added |-> FALSE, bits |-> {}]

\* The pieces at the positions of bucket v: from the boundary that ends
\* bucket v-1 (position 0 for v = 0) up to the boundary that ends bucket v.
BucketStart(s, v) == IF v = 0 THEN 0 ELSE PriAt(s.priorities, v - 1)

BucketEnd(s, v) == PriAt(s.priorities, v)

BucketPieces(s, v) ==
    {s.pieces[i] : i \in {j \in DOMAIN s.pieces :
                             BucketStart(s, v) <= j /\ j < BucketEnd(s, v)}}

\* The non-empty buckets, each with the pieces at its positions.
Buckets(s) ==
    {<<v, BucketPieces(s, v)>> :
        v \in {w \in 0 .. (PriLen(s.priorities) - 1) : BucketPieces(s, w) # {}}}

Availability(s) == [p \in DOMAIN s.piece_idx |-> s.piece_idx[p].availability]

\* What the properties compare across calls: the order of the pieces, each
\* piece's availability and each bucket's membership.
Snapshot(s) ==
    [taken |-> TRUE, pieces |-> s.pieces, availability |-> Availability(s),
     buckets |-> Buckets(s), seeder |-> FALSE]

NoSnap == [taken |-> FALSE, seeder |-> FALSE]

Commit(s) ==
    /\ pieces' = s.pieces
    /\ priorities' = s.priorities
    /\ piece_idx' = s.piece_idx
    /\ seeders' = s.seeders
    /\ panicked' = s.panicked

\* A call that does not overflow runs the same under both build profiles, so
\* each action runs the call with overflow checks and, when that panics, also
\* without them.
Wrapping(s) == [s EXCEPT !.overflow_checks = FALSE]

Called(op, arg, ret, undoes, prev, again) ==
    [op |-> op, arg |-> arg, ret |-> ret, undoes |-> undoes, prev |-> prev,
     again |-> again]

\* The picker new(bits) returns, no peer added yet, with n calls to come.
Constructed(bits, n) ==
    /\ \E checks \in BOOLEAN : \E s \in {new(bits, checks)} :
          /\ pieces = s.pieces
          /\ priorities = s.priorities
          /\ piece_idx = s.piece_idx
          /\ seeders = s.seeders
          /\ panicked = s.panicked
    /\ peers = [id \in PeerIds |-> NoPeer]
    /\ last = Called("new", None, None, FALSE, None, FALSE)
    /\ snap = NoSnap
    /\ picked = {}
    /\ recompleted = FALSE
    /\ budget = n
    /\ RpcStarted

\* A torrent of which any pieces are already owned.
Init == \E bits \in SUBSET Pieces : Constructed(bits, MaxCalls)

\* A torrent of which no piece is owned yet.
InitFresh == Constructed({}, MaxCallsFresh)

CanCall ==
    /\ ~panicked
    /\ budget > 0

AddPeer(id, bits) ==
    /\ CanCall
    /\ ~peers[id].added
    /\ \E s \in {Self(TRUE)} : \E r \in {add_peer(s, id, bits)} :
          /\ \E out \in IF r.panicked
                         THEN {r, add_peer(Wrapping(s), id, bits)} ELSE {r} :
                Commit(out)
          /\ snap' = [Snapshot(s) EXCEPT !.seeder = BitfieldComplete(bits)]
    /\ peers' = [peers EXCEPT ![id] = [added |-> TRUE, bits |-> bits]]
    /\ last' = Called("add_peer", id, None, FALSE, None, FALSE)
    /\ budget' = budget - 1
    /\ UNCHANGED <<picked, recompleted>>
    /\ UNCHANGED rpc_vars

RemovePeer(id) ==
    /\ CanCall
    /\ peers[id].added
    /\ \E s \in {Self(TRUE)} : \E r \in {remove_peer(s, id, peers[id].bits)} :
          \E out \in IF r.panicked
                      THEN {r, remove_peer(Wrapping(s), id, peers[id].bits)}
                      ELSE {r} :
             Commit(out)
    /\ peers' = [peers EXCEPT ![id] = NoPeer]
    /\ last' = Called("remove_peer", id, None,
                      last.op = "add_peer" /\ last.arg = id, None, FALSE)
    /\ snap' = IF last.op = "add_peer" /\ last.arg = id THEN snap ELSE NoSnap
    /\ budget' = budget - 1
    /\ UNCHANGED <<picked, recompleted>>
    /\ UNCHANGED rpc_vars

Pick(id) ==
    /\ CanCall
    /\ peers[id].added
    /\ \E s \in {Self(TRUE)} : \E c \in {pick(s, peers[id].bits)} :
          \E r \in IF c.s.panicked
                    THEN {c, pick(Wrapping(s), peers[id].bits)} ELSE {c} :
             /\ Commit(r.s)
             /\ last' = Called("pick", id,
                               IF r.s.panicked THEN None ELSE r.ret,
                               FALSE,
                               IF last.op = "pick" /\ last.arg = id
                               THEN last.ret ELSE None,
                               ~r.s.panicked /\ r.ret \in picked)
             /\ picked' = IF r.s.panicked \/ r.ret = None THEN picked
                          ELSE picked \cup {r.ret}
    /\ snap' = NoSnap
    /\ budget' = budget - 1
    /\ UNCHANGED <<peers, recompleted>>
    /\ UNCHANGED rpc_vars

Completed(piece) ==
    /\ CanCall
    /\ \E s \in {Self(TRUE)} : \E r \in {completed(s, piece)} :
          /\ \E out \in IF r.panicked
                         THEN {r, completed(Wrapping(s), piece)} ELSE {r} :
                Commit(out)
          /\ snap' = Snapshot(s)
    /\ last' = Called("completed", piece, None, FALSE, None, FALSE)
    /\ recompleted' = (recompleted \/ piece_idx[piece].status = "Complete")
    /\ budget' = budget - 1
    /\ UNCHANGED <<peers, picked>>
    /\ UNCHANGED rpc_vars

Incomplete(piece) ==
    /\ CanCall
    /\ piece_idx[piece].status = "Complete"
    /\ \E s \in {Self(TRUE)} : \E r \in {incomplete(s, piece)} :
          \E out \in IF r.panicked
                      THEN {r, incomplete(Wrapping(s), piece)} ELSE {r} :
             Commit(out)
    /\ last' = Called("incomplete", piece, None,
                      last.op = "completed" /\ last.arg = piece, None, FALSE)
    /\ snap' = IF last.op = "completed" /\ last.arg = piece THEN snap ELSE NoSnap
    /\ budget' = budget - 1
    /\ UNCHANGED <<peers, picked, recompleted>>
    /\ UNCHANGED rpc_vars

Next ==
    \/ \E id \in PeerIds, bits \in SUBSET Pieces : AddPeer(id, bits)
    \/ \E id \in PeerIds : RemovePeer(id)
    \/ \E id \in PeerIds : Pick(id)
    \/ \E piece \in Pieces : Completed(piece)
    \/ \E piece \in Pieces : Incomplete(piece)

Spec == Init /\ [][Next]_vars

SpecFresh == InitFresh /\ [][Next]_vars

\* ------------------------------------------------ the reactor's handlers
RpcCommit(r) ==
    /\ incoming' = r.incoming
    /\ clients' = r.clients
    /\ transfers' = r.transfers
    /\ processor' = r.processor
    /\ registered' = r.registered
    /\ dropped' = r.dropped
    /\ written' = r.written
    /\ ctl' = r.ctl
    /\ reactor' = r.reactor
    /\ next_id' = r.next_id
    /\ notified' = notified + 1
    /\ UNCHANGED <<accepting, accept_errors>>

\* run takes the next notification of the batch poll.wait returned.
CanHandle ==
    /\ reactor = "running"
    /\ ~accepting
    /\ notified < MaxNotified

Handled(op, id, event) == [op |-> op, id |-> id, event |-> event]

\* The inputs the environment chooses.
AcceptResults == UNION {[1 .. n -> {"Ok", "Err"}] : n \in 0 .. MaxConns}

Accepted(results) == Cardinality({i \in DOMAIN results : results[i] = "Ok"})

IncomingStatus ==
    {[is |-> x, token |-> None] : x \in {"Upgrade", "Incomplete", "Err"}}
    \cup {[is |-> "Transfer", token |-> t] : t \in TokenIds}

ClientRead(read, kind, ch_ok, send_ok) ==
    [read |-> read, kind |-> kind, ch_ok |-> ch_ok, send_ok |-> send_ok]

ClientReads ==
    {ClientRead(x, "None", TRUE, TRUE) :
        x \in {"Err", "Binary", "Invalid", "SUBSCRIBE"}}
    \cup {ClientRead("UPDATE_RESOURCE", "None", ok, TRUE) : ok \in BOOLEAN}
    \cup {ClientRead("UPLOAD_TORRENT", k, TRUE, ok) :
             k \in {"UploadTorrent", "Other"}, ok \in BOOLEAN}

ReadRuns == UNION {[1 .. n -> ClientReads] : n \in 0 .. MaxReads}

Uploads(reads) ==
    Cardinality({i \in DOMAIN reads : reads[i].read = "UPLOAD_TORRENT"})

Events ==
    {[readable |-> TRUE, writable |-> FALSE],
     [readable |-> FALSE, writable |-> TRUE],
     [readable |-> TRUE, writable |-> TRUE]}

CtlMessages == {"Update", "Shutdown"}

HandleAccept(results) ==
    /\ CanHandle
    /\ next_id + Accepted(results) <= MaxConns + 1
    /\ \E r \in {handle_accept(RpcSelf, results)} : RpcCommit(r)
    /\ handled' = Handled("accept", None, "none")
    /\ UNCHANGED picker_vars

HandleIncoming(id, status) ==
    /\ CanHandle
    /\ id \in incoming
    /\ \E o \in {handle_incoming(RpcSelf, id, status)} :
          /\ RpcCommit(o.r)
          /\ handled' = Handled("incoming", id, o.event)
    /\ UNCHANGED picker_vars

HandleConn(id, ev, reads, write_ok) ==
    /\ CanHandle
    /\ id \in clients
    /\ processor.minted + Uploads(reads) <= MaxTokens
    /\ \E o \in {handle_conn(RpcSelf, id, ev, reads, write_ok)} :
          /\ RpcCommit(o.r)
          /\ handled' = Handled("conn", id, o.event)
    /\ UNCHANGED picker_vars

HandleTransfer(id, readable, result, ch_ok, send_ok) ==
    /\ CanHandle
    /\ id \in DOMAIN transfers
    /\ \E o \in {handle_transfer(RpcSelf, id, readable, result, ch_ok,
                                   send_ok)} :
          /\ RpcCommit(o.r)
          /\ handled' = Handled("transfer", id, o.event)
    /\ UNCHANGED picker_vars

Cleanup(expired, timed_out, send_ok) ==
    /\ CanHandle
    /\ \E r \in {cleanup(RpcSelf, expired, timed_out, send_ok)} : RpcCommit(r)
    /\ handled' = Handled("cleanup", None, "none")
    /\ UNCHANGED picker_vars

\* run returns when handle_ctl returns true.
HandleCtl(fails) ==
    /\ CanHandle
    /\ \E o \in {handle_ctl(RpcSelf, fails)} :
          /\ RpcCommit(IF o.shutdown /\ Running(o.r)
                       THEN EndRun(o.r, "returned") ELSE o.r)
          /\ handled' = Handled("ctl", None,
                                IF o.shutdown THEN "shutdown" ELSE "drained")
    /\ UNCHANGED picker_vars

\* poll.wait returns an error: the loop of run ends.
WaitFails ==
    /\ CanHandle
    /\ RpcCommit(EndRun(RpcSelf, "returned"))
    /\ handled' = Handled("wait", None, "failed")
    /\ UNCHANGED picker_vars

\* The controller sends a message on the channel.
CtlSend(m) ==
    /\ reactor = "running"
    /\ Len(ctl) < MaxCtl
    /\ ctl' = Append(ctl, m)
    /\ UNCHANGED <<incoming, clients, transfers, processor, registered,
                   dropped, written, reactor, next_id, handled, notified,
                   accepting, accept_errors>>
    /\ UNCHANGED picker_vars

InitRPC == Constructed({}, 0)

NextRPC ==
    \/ \E results \in AcceptResults : HandleAccept(results)
    \/ \E id \in ConnIds, status \in IncomingStatus : HandleIncoming(id, status)
    \/ \E id \in ConnIds, ev \in Events, reads \in ReadRuns,
          write_ok \in BOOLEAN :
          HandleConn(id, ev, reads, write_ok)
    \/ \E id \in ConnIds, readable \in BOOLEAN,
          result \in {"Incomplete", "Torrent", "Error"}, ch_ok \in BOOLEAN,
          send_ok \in BOOLEAN :
          HandleTransfer(id, readable, result, ch_ok, send_ok)
    \/ \E expired \in SUBSET TokenIds, timed_out \in SUBSET ConnIds,
          send_ok \in BOOLEAN :
          Cleanup(expired, timed_out, send_ok)
    \/ \E fails \in SUBSET ConnIds : HandleCtl(fails)
    \/ WaitFails
    \/ \E m \in CtlMessages : CtlSend(m)

SpecRPC == InitRPC /\ [][NextRPC]_vars

\* ------------------------------------------- handle_accept, turn by turn
\* The notification of the listener: run enters the loop of handle_accept.
AcceptBegin ==
    /\ CanHandle
    /\ accepting' = TRUE
    /\ accept_errors' = 0
    /\ notified' = notified + 1
    /\ handled' = Handled("accept", None, "none")
    /\ UNCHANGED <<incoming, clients, transfers, processor, registered,
                   dropped, written, ctl, reactor, next_id>>
    /\ UNCHANGED picker_vars

\* One call of listener.accept() in the loop: WouldBlock breaks out of it,
\* a connection or any other error goes round again.
AcceptCall(result) ==
    /\ reactor = "running"
    /\ accepting
    /\ result = "Ok" => next_id <= MaxConns
    /\ \E r \in {accept_once(RpcSelf, result)} :
          /\ incoming' = r.incoming
          /\ registered' = r.registered
          /\ next_id' = r.next_id
    /\ accepting' = (result # "WouldBlock")
    /\ accept_errors' = IF result = "Err"
                        THEN (accept_errors + 1) % MaxAcceptErrors
                        ELSE accept_errors
    /\ UNCHANGED <<clients, transfers, processor, dropped, written, ctl,
                   reactor, handled, notified>>
    /\ UNCHANGED picker_vars

NextAccept ==
    \/ AcceptBegin
    \/ \E result \in {"Ok", "Err", "WouldBlock"} : AcceptCall(result)
    \/ \E id \in ConnIds, status \in IncomingStatus : HandleIncoming(id, status)
    \/ \E id \in ConnIds, ev \in Events, reads \in ReadRuns,
          write_ok \in BOOLEAN :
          HandleConn(id, ev, reads, write_ok)
    \/ \E id \in ConnIds, readable \in BOOLEAN,
          result \in {"Incomplete", "Torrent", "Error"}, ch_ok \in BOOLEAN,
          send_ok \in BOOLEAN :
          HandleTransfer(id, readable, result, ch_ok, send_ok)
    \/ \E expired \in SUBSET TokenIds, timed_out \in SUBSET ConnIds,
          send_ok \in BOOLEAN :
          Cleanup(expired, timed_out, send_ok)
    \/ \E fails \in SUBSET ConnIds : HandleCtl(fails)
    \/ WaitFails
    \/ \E m \in CtlMessages : CtlSend(m)

\* The reactor's thread keeps running: a loop that can take another turn
\* takes it.
SpecAccept ==
    /\ InitRPC
    /\ [][NextAccept]_vars
    /\ WF_vars(\E result \in {"Ok", "Err", "WouldBlock"} : AcceptCall(result))

\* ------------------------------------------------------------ properties
Cur == [pieces |-> pieces, priorities |-> priorities, piece_idx |-> piece_idx]

PiecesWithAvailability(v) == {p \in Pieces : piece_idx[p].availability = v}

\* The most recent call returned (it did not panic).
Returned == ~panicked

\* C1: after every picker call that returned, for every availability v the
\* positions of bucket v recorded in priorities hold exactly the pieces whose
\* stored availability is v.
C1_BucketPartition ==
    Returned =>
        /\ \A p \in Pieces : PriInRange(priorities, piece_idx[p].availability)
        /\ \A v \in 0 .. (PriLen(priorities) - 1) :
              BucketPieces(Cur, v) = PiecesWithAvailability(v)

\* C2: after every picker call that returned, pieces is a permutation of
\* 0..N-1 and piece_idx[p].idx is the position of p in pieces.
C2_PositionIndex ==
    Returned =>
        /\ DOMAIN pieces = Pieces
        /\ {pieces[i] : i \in DOMAIN pieces} = Pieces
        /\ \A p \in Pieces :
              /\ piece_idx[p].idx \in DOMAIN pieces
              /\ pieces[piece_idx[p].idx] = p

\* add_peer returned after its swaps changed the order of the pieces.
C2_Witness ==
    /\ Returned
    /\ last.op = "add_peer"
    /\ snap.taken
    /\ snap.pieces # pieces

\* The last call was pick(peer) and it returned a piece.
PickReturned ==
    /\ last.op = "pick"
    /\ Returned
    /\ last.ret # None

IncompleteHeld(id) ==
    {p \in peers[id].bits : piece_idx[p].status = "Incomplete"}

\* C3: pick never returns a piece whose bit is unset in the peer's bitfield
\* nor a Complete piece; when every piece is Complete it returns None.
C3_PickHeldIncomplete ==
    /\ PickReturned =>
          /\ last.ret \in peers[last.arg].bits
          /\ piece_idx[last.ret].status = "Incomplete"
    /\ (last.op = "pick" /\ Returned
          /\ \A p \in Pieces : piece_idx[p].status = "Complete")
       => last.ret = None

\* pick returned a piece to a peer that also has a Complete piece, passing
\* over an earlier piece the peer does not have.
C3_Witness ==
    /\ PickReturned
    /\ \E q \in peers[last.arg].bits : piece_idx[q].status = "Complete"
    /\ \E q \in Pieces \ peers[last.arg].bits :
          piece_idx[q].idx < piece_idx[last.ret].idx

\* C4: when pick(peer) returns p, no Incomplete piece the peer has had a
\* strictly lower stored availability than p when pick was called.
C4_RarestFirst ==
    [][(last'.op = "pick" /\ budget' = budget - 1 /\ ~panicked' /\ last'.ret # None)
          => \A q \in IncompleteHeld(last'.arg) :
                piece_idx[q].availability >= piece_idx[last'.ret].availability]_vars

\* C5: a piece pick has returned is not returned by a later pick.
C5_NotOfferedAgain ==
    PickReturned => ~last.again

\* C6: two consecutive picks of the same peer that both return a piece return
\* different pieces, unless the peer holds exactly one Incomplete piece.
C6_ConsecutivePicksDiffer ==
    (PickReturned /\ last.prev # None /\ Cardinality(IncompleteHeld(last.arg)) # 1)
        => last.ret # last.prev

\* C7: once every added peer has been removed and every piece is Incomplete,
\* every piece's stored availability is the initial bias 1.
C7_BackToBias ==
    (/\ last.op # "new"
     /\ \A id \in PeerIds : ~peers[id].added
     /\ \A p \in Pieces : piece_idx[p].status = "Incomplete")
        => \A p \in Pieces : piece_idx[p].availability = 1

\* The last two calls were add_peer(peer) and remove_peer(peer), the peer
\* not a seeder.
AddedThenRemoved ==
    /\ last.op = "remove_peer"
    /\ last.undoes
    /\ ~snap.seeder

\* C8: add_peer(peer) immediately followed by remove_peer(peer), the peer not
\* a seeder, returns and leaves every piece's stored availability and every
\* bucket's membership as they were before the two calls.
C8_AddRemoveNoOp ==
    AddedThenRemoved =>
        /\ Returned
        /\ Availability(Cur) = snap.availability
        /\ Buckets(Cur) = snap.buckets

\* C9: completed(p) returns with p Complete, exactly PIECE_COMPLETE_INC added
\* to p's availability and no other availability changed; incomplete(p)
\* right after completed(p) returns with p Incomplete, exactly
\* PIECE_COMPLETE_INC subtracted from p's availability, and every piece's
\* availability as it was before completed(p).
C9_CompletedIncomplete ==
    [][/\ (last'.op = "completed" /\ budget' = budget - 1)
          => /\ ~panicked'
             /\ piece_idx'[last'.arg].status = "Complete"
             /\ \A p \in Pieces :
                   piece_idx'[p].availability =
                      IF p = last'.arg
                      THEN piece_idx[p].availability + PIECE_COMPLETE_INC
                      ELSE piece_idx[p].availability
       /\ (last'.op = "incomplete" /\ budget' = budget - 1 /\ last'.undoes)
          => /\ ~panicked'
             /\ piece_idx'[last'.arg].status = "Incomplete"
             /\ \A p \in Pieces :
                   /\ piece_idx'[p].availability =
                         IF p = last'.arg
                         THEN piece_idx[p].availability - PIECE_COMPLETE_INC
                         ELSE piece_idx[p].availability
                   /\ piece_idx'[p].availability = snap.availability[p]]_vars

\* completed(p) then incomplete(p), both returned, on a piece a peer has.
C9_Witness ==
    /\ last.op = "incomplete"
    /\ last.undoes
    /\ Returned
    /\ piece_idx[last.arg].availability > 1

\* C10: add_peer of a peer whose bitfield is complete only inserts its id
\* into seeders, and remove_peer of a peer in seeders only removes it; both
\* leave pieces, priorities and piece_idx unchanged.
C10_SeedersFrame ==
    [][/\ (last'.op = "add_peer" /\ budget' = budget - 1
             /\ BitfieldComplete(peers'[last'.arg].bits))
          => /\ ~panicked'
             /\ seeders' = seeders \cup {last'.arg}
             /\ UNCHANGED <<pieces, priorities, piece_idx>>
       /\ (last'.op = "remove_peer" /\ budget' = budget - 1
             /\ last'.arg \in seeders)
          => /\ ~panicked'
             /\ seeders' = seeders \ {last'.arg}
             /\ UNCHANGED <<pieces, priorities, piece_idx>>]_vars

\* A seeder was added and then removed while another peer gives a piece an
\* availability above the bias.
C10_Witness ==
    /\ last.op = "remove_peer"
    /\ last.undoes
    /\ snap.seeder
    /\ seeders = {}
    /\ \E p \in Pieces : piece_idx[p].availability = 2

\* ----------------------------------------------------- the reactor's claims
\* The connections the reactor holds.
Held == incoming \cup clients \cup DOMAIN transfers

\* C11: while the reactor runs, every socket it holds is registered, every
\* connection object it dropped was deregistered before, and no socket is
\* deregistered twice (the unwrap of a second deregistration panics).
C11_RegistrationPaired ==
    /\ reactor = "running" =>
          /\ Held \subseteq registered
          /\ dropped \cap registered = {}
    /\ reactor = "panicked" => handled.event = "ch_send_failed"

\* The clients the Processor knows: the subscribed ones and the owners of
\* the outstanding tokens.
Known(p) == p.subs \cup {e.client : e \in p.tokens}

\* C12: while the reactor runs, the Processor knows no client that is not
\* in `clients`: remove_client was invoked for every client destroyed, so
\* no message is addressed to an absent client.
C12_RemovedFromProcessor ==
    reactor = "running" => Known(processor) \subseteq clients

\* C13: a notification in which a send on the controller channel failed
\* leaves the reactor running.
C13_ChannelFailureSurvived ==
    handled.event \in {"ch_send_failed", "torrent_ch_send_failed"}
        => reactor = "running"

\* C14: every transfer took a token of its own out of the table, and an
\* upload whose token is not in the table creates no transfer and is
\* answered with HTTP 401.
C14_SingleUseToken ==
    /\ Cardinality(DOMAIN transfers) + Cardinality(processor.tokens)
          <= processor.minted
    /\ handled.event = "invalid_token" =>
          /\ handled.id \notin DOMAIN transfers
          /\ "HTTP_401" \in written[handled.id]

\* C15: a client whose text frame is not valid JSON has an ERROR frame
\* queued and is then closed: it is no longer in `clients`, its socket is
\* deregistered and the connection is dropped.
C15_InvalidJsonAnswered ==
    handled.event = "invalid_json" =>
        /\ "ERROR" \in written[handled.id]
        /\ handled.id \notin clients
        /\ handled.id \notin registered
        /\ handled.id \in dropped

\* C16: once Shutdown was received, run has returned, the reactor holds no
\* connection and every socket it had registered is deregistered.
C16_ShutdownDeregisters ==
    handled.event = "shutdown" =>
        /\ reactor = "returned"
        /\ Held = {}
        /\ registered = {}

\* ------------------------------------------------ more of the picker's claims
\* A call of pick that returned.
PickStep ==
    /\ last'.op = "pick"
    /\ budget' = budget - 1
    /\ ~panicked'

\* C17: a pick that returns a piece whose availability was odd lowers that
\* availability by one and no other; a pick that returns a piece whose
\* availability was even, or None, changes nothing.
C17_ParityRule ==
    [][PickStep =>
          IF last'.ret # None /\ piece_idx[last'.ret].availability % 2 = 1
          THEN \A p \in Pieces :
                  piece_idx'[p].availability =
                      IF p = last'.ret THEN piece_idx[p].availability - 1
                      ELSE piece_idx[p].availability
          ELSE UNCHANGED <<pieces, priorities, piece_idx>>]_vars

\* C18: with remove_peer called only for an added peer and incomplete only
\* for a Complete piece, no call panics and no stored availability is below
\* the bias 1.
C18_NoUnderflow ==
    /\ ~panicked
    /\ \A p \in Pieces : piece_idx[p].availability >= 1

\* The greatest stored availability.
MaxAvailability ==
    CHOOSE a \in {piece_idx[p].availability : p \in Pieces} :
        \A p \in Pieces : piece_idx[p].availability <= a

\* piece_available(p), called now, pushes pieces.len() exactly when the new
\* availability of p is priorities.len().
PushesWhenFull(p) ==
    \E s \in {Self(TRUE)} : \E s2 \in {piece_available(s, p)} :
        ~s2.panicked =>
            IF s.piece_idx[p].availability + 1 = PriLen(s.priorities)
            THEN s2.priorities =
                     PriPush(PriAdd(s.priorities, s.piece_idx[p].availability,
                                    -1),
                             VecLen(s.pieces))
            ELSE PriLen(s2.priorities) = PriLen(s.priorities)

\* C19: priorities is non-decreasing, no entry exceeds pieces.len(), its
\* length is at least the greatest availability plus one, and
\* piece_available appends pieces.len() exactly when the new availability
\* of the piece equals priorities.len().
C19_PrioritiesShape ==
    /\ \A i \in 1 .. (Len(priorities) - 1) : priorities[i] <= priorities[i + 1]
    /\ \A i \in 1 .. Len(priorities) : priorities[i] <= VecLen(pieces)
    /\ Len(priorities) >= MaxAvailability + 1
    /\ \A p \in Pieces : PushesWhenFull(p)

\* A call returned with a bound pushed for a completed piece and a bucket
\* boundary strictly inside `pieces`.
C19_Witness ==
    /\ ~panicked
    /\ last.op # "new"
    /\ Len(priorities) > PIECE_COMPLETE_INC
    /\ \E i \in 1 .. Len(priorities) :
          priorities[i] > 0 /\ priorities[i] < VecLen(pieces)

InOneMap ==
    /\ incoming \cap clients = {}
    /\ incoming \cap DOMAIN transfers = {}
    /\ clients \cap DOMAIN transfers = {}
    /\ reactor = "running" => registered \ dropped = Held

\* An id enters `incoming` only as a new id, and `clients` or `transfers`
\* only from `incoming`.
MovesForward ==
    /\ \A id \in incoming' \ incoming : id \notin Held /\ id >= next_id
    /\ \A id \in clients' \ clients : id \in incoming
    /\ \A id \in (DOMAIN transfers') \ DOMAIN transfers : id \in incoming

\* C21: in every state each id is in at most one of incoming, clients and
\* transfers, each registered id whose connection is not terminated is in
\* exactly one of them, and an id only moves from incoming to clients or
\* from incoming to transfers.
C21_OneMapForward ==
    []InOneMap /\ [][MovesForward]_vars

\* An id in each of the three maps, the transfer's id having moved there
\* from incoming.
C21_Witness ==
    /\ incoming # {}
    /\ clients # {}
    /\ DOMAIN transfers # {}
    /\ handled.event = "transfer"

\* C22: every invocation of handle_accept ends: once run is inside the
\* loop, it leaves it.
C22_AcceptTerminates ==
    accepting ~> ~accepting
====
